---------------------------- MODULE Spec2Model ----------------------------
(***************************************************************************)
(* Cache-aside product service: a durable product store (SQLAlchemy       *)
(* session over the products table), a Redis cache reached through         *)
(* RedisCache, and the four ProductService operations.                     *)
(*                                                                         *)
(* Specifications:                                                         *)
(*   Spec      request handlers interleaved at the granularity of one      *)
(*             store or cache call (the service holds no lock; the store   *)
(*             and Redis are shared by every handler), healthy cache;      *)
(*   SpecWW    Spec's handlers serving two writes of one product;          *)
(*   SpecTwo   Spec's handlers serving requests for two stored products;   *)
(*   SpecSeq   requests executed one after another, each as one action,    *)
(*             on a service with a healthy cache and, in lockstep, on a    *)
(*             service whose connector is degraded;                        *)
(*   SpecFault requests one after another with failing store and cache     *)
(*             calls, and a Redis server others write to;                  *)
(*   SpecTTL   the same requests with entries that age and expire;         *)
(*   SpecFrame updates with every shape of body;                           *)
(*   SpecConn  the connector's methods and the /health endpoint;           *)
(*   SpecCodec the encoding of a product into the cache and back.          *)
(***************************************************************************)
EXTENDS Integers, Sequences, FiniteSets, TLC

(***************************************************************************)
(* Bounds and input domains                                                *)
(***************************************************************************)
\* number of request handlers of Spec that run at the same time
NumHandlers == 2

\* number of requests one behaviour of Spec serves
MaxReq == 3

\* number of requests one behaviour of SpecTwo serves
MaxReqTwo == 2

Handlers == 1..NumHandlers

\* product ids: "a" is the product the store is seeded with, "b" is the id
\* uuid4 hands to the one product a behaviour creates
Ids == {"a", "b"}

SeedId == "a"

None == [nil |-> TRUE]

\* settings.CACHE_TTL_SECONDS
CACHE_TTL_SECONDS == 3600

Columns == {"id", "name", "description", "price", "stock_quantity"}

\* request bodies accepted by ProductCreate
CreateInputs ==
    { [name |-> "W", description |-> "d", price |-> 10, stock_quantity |-> 5] }

\* request bodies accepted by ProductUpdate, as model_dump(exclude_unset=True)
\* returns them: only the fields the client sent
UpdateInputs ==
    { [price |-> 20, stock_quantity |-> 4],
      [name |-> "V"] }

\* the row seed_database leaves in the store: its first sample product,
\* with short stand-ins for the column values (the uuid4 id, "Wireless
\* Mouse", the description, 24.99, 150)
SeedRow ==
    [id |-> SeedId, name |-> "W", description |-> "d", price |-> 10,
     stock_quantity |-> 5]

(***************************************************************************)
(* models.py: Product                                                      *)
(***************************************************************************)
\* Product(name=..., description=..., price=..., stock_quantity=...) with the
\* id column's default
NewProduct(id, data) ==
    [id |-> id, name |-> data.name, description |-> data.description,
     price |-> data.price, stock_quantity |-> data.stock_quantity]

\* a to_dict that exchanges price and stock_quantity
to_dict_swapped(p) ==
    [id |-> p.id, name |-> p.name, description |-> p.description,
     price |-> p.stock_quantity, stock_quantity |-> p.price]

\* Product.to_dict: the five columns under their own names
to_dict(p) ==
    [id |-> p.id, name |-> p.name, description |-> p.description,
     price |-> p.price, stock_quantity |-> p.stock_quantity]

\* the order in which to_dict lists its keys, which json.dumps keeps
DictOrder == <<"id", "name", "description", "price", "stock_quantity">>

\* a json.dumps that leaves the description out
json_dumps_lossy(d) ==
    LET keys == SelectSeq(DictOrder,
                          LAMBDA k : k \in DOMAIN d /\ k # "description")
    IN  [i \in 1..Len(keys) |-> <<keys[i], d[keys[i]]>>]

\* json.dumps(product_dict): the JSON object as its sequence of members
json_dumps(d) ==
    LET keys == SelectSeq(DictOrder, LAMBDA k : k \in DOMAIN d)
    IN  [i \in 1..Len(keys) |-> <<keys[i], d[keys[i]]>>]

\* whether json.loads accepts the text: every member has its value (a text
\* cut off after a key is one json.loads raises JSONDecodeError on)
Parseable(text) == \A i \in DOMAIN text : Len(text[i]) = 2

\* json.loads(cached_data): the dict of the members, a repeated key keeping
\* its last value
json_loads(text) ==
    [k \in {text[i][1] : i \in DOMAIN text} |->
        LET last == CHOOSE i \in DOMAIN text :
                        /\ text[i][1] = k
                        /\ \A j \in DOMAIN text : text[j][1] = k => j <= i
        IN  text[last][2]]

\* a reconstruction that leaves the id to the column's default, a new uuid
ProductFromDict_new_id(d) ==
    [c \in DOMAIN d |-> IF c = "id" THEN "new" ELSE d[c]]

\* Product(**cached_product) followed by product.id = cached_product["id"]:
\* the declarative constructor takes only column names, and the columns the
\* dict does not give stay unset
ProductFromDict(d) ==
    IF ~(DOMAIN d \subseteq Columns) THEN [raised |-> "TypeError"]
    ELSE IF "id" \notin DOMAIN d THEN [raised |-> "KeyError"]
    ELSE [c \in DOMAIN d |-> d[c]]

(***************************************************************************)
(* cache.py: RedisCache                                                    *)
(*   client  self.redis_client: "client" once connect() succeeded, "None"  *)
(*           when it failed (degraded connector)                           *)
(*   up      whether the Redis server answers; a call on a client whose    *)
(*           server does not answer raises, and every method catches it    *)
(*   kv      the server's keys: key -> [value, ttl] or None                *)
(***************************************************************************)
\* a key that leaves the id out
_get_cache_key_shared(product_id) == "product:"

\* RedisCache._get_cache_key
_get_cache_key(product_id) == "product:" \o product_id

Keys == {_get_cache_key(i) : i \in Ids}

EmptyCache == [k \in Keys |-> None]

\* redis GET
RedisGet(kv, key) == IF kv[key] = None THEN None ELSE kv[key].value

\* redis SETEX key ttl value
RedisSetex(kv, key, ttl, value) ==
    [kv EXCEPT ![key] = [value |-> value, ttl |-> ttl]]

\* a DEL that removes nothing
RedisDelete_kept(kv, key) == kv

\* a DEL that removes every key of the database
RedisDelete_all(kv, key) == [k \in DOMAIN kv |-> None]

\* redis DEL key
RedisDelete(kv, key) == [kv EXCEPT ![key] = None]

\* a get_product_from_cache that does not look whether a client exists
get_product_from_cache_unguarded(client, up, kv, product_id) ==
    LET cached_data == RedisGet(kv, _get_cache_key(product_id))
    IN  IF cached_data # None THEN json_loads(cached_data) ELSE None

\* the try block of get_product_from_cache: what it returns, or the
\* exception it raises (the GET on a server that does not answer, json.loads
\* on a text it cannot parse)
get_try(up, kv, product_id) ==
    IF ~up THEN [raised |-> "ConnectionError"]
    ELSE LET cached_data == RedisGet(kv, _get_cache_key(product_id))
         IN  IF cached_data = None THEN None
             ELSE IF ~Parseable(cached_data)
             THEN [raised |-> "JSONDecodeError"]
             ELSE json_loads(cached_data)

\* whether a call ended in an exception
IsRaised(r) == r # None /\ "raised" \in DOMAIN r

\* a get_product_from_cache without its except clause
get_product_from_cache_uncaught(client, up, kv, product_id) ==
    IF client = "None" THEN None
    ELSE get_try(up, kv, product_id)

\* RedisCache.get_product_from_cache: the decoded dict, or None; every
\* exception of the try block ends in the except clause, which returns None
get_product_from_cache(client, up, kv, product_id) ==
    IF client = "None" THEN None
    ELSE LET r == get_try(up, kv, product_id)
         IN  IF IsRaised(r) THEN None ELSE r

\* a set_product_in_cache whose entry appears although the call failed
set_product_in_cache_unguarded(client, up, kv, product_dict, ttl_seconds) ==
    RedisSetex(kv, _get_cache_key(product_dict.id), CACHE_TTL_SECONDS,
               json_dumps(product_dict))

\* a set_product_in_cache that stores nothing
set_skipped(client, up, kv, product_dict, ttl_seconds) == kv

\* an Optional[int] argument that is given
Seconds(n) == [seconds |-> n]

\* ttl_seconds if ttl_seconds is not None else settings.CACHE_TTL_SECONDS
TtlOf(ttl_seconds) ==
    IF ttl_seconds = None THEN CACHE_TTL_SECONDS ELSE ttl_seconds.seconds

\* not product_id, for product_id = product_dict.get("id")
NoId(product_dict) ==
    IF "id" \notin DOMAIN product_dict THEN TRUE ELSE product_dict.id = ""

\* a set_product_in_cache that falls back to a SET without expiry when the
\* time is not positive (ttl 0: the key never expires)
set_product_in_cache_persisting(client, up, kv, product_dict, ttl_seconds) ==
    IF client = "None" THEN kv
    ELSE IF NoId(product_dict) THEN kv
    ELSE IF ~up THEN kv
    ELSE RedisSetex(kv, _get_cache_key(product_dict.id),
                    IF TtlOf(ttl_seconds) <= 0 THEN 0 ELSE TtlOf(ttl_seconds),
                    json_dumps(product_dict))

\* RedisCache.set_product_in_cache: the server's keys afterwards. Nothing
\* is stored without a client, for a dict whose id is missing or empty,
\* when the SETEX raises because the server does not answer, or because the
\* server rejects a time that is not positive ("invalid expire time"); the
\* except clause swallows both.
set_product_in_cache(client, up, kv, product_dict, ttl_seconds) ==
    IF client = "None" THEN kv
    ELSE IF NoId(product_dict) THEN kv
    ELSE IF ~up THEN kv
    ELSE IF TtlOf(ttl_seconds) <= 0 THEN kv
    ELSE RedisSetex(kv, _get_cache_key(product_dict.id), TtlOf(ttl_seconds),
                    json_dumps(product_dict))

\* an invalidate_product_cache that deletes nothing
invalidate_skipped(client, up, kv, product_id) == kv

\* RedisCache.invalidate_product_cache: the server's keys afterwards
invalidate_product_cache(client, up, kv, product_id) ==
    IF client = "None" THEN kv
    ELSE IF ~up THEN kv
    ELSE RedisDelete(kv, _get_cache_key(product_id))

\* a direct probe of the cache for a product's key
Probe(kv, product_id) == RedisGet(kv, _get_cache_key(product_id))

\* RedisCache.connect: the client when the ping is answered, None when it
\* raises
connect(up) == IF up THEN "client" ELSE "None"

\* a health_check that pings without looking whether a client exists
health_check_unguarded(client, up) == up

\* a health_check that answers from the stored client, without a ping
health_check_flag(client, up) == client # "None"

\* RedisCache.health_check: False without a client, else whether the ping
\* is answered (a ping that raises ends in the except clause)
health_check(client, up) ==
    IF client = "None" THEN FALSE ELSE up

\* main.py health_check: the body of the /health response
main_health_check(client, up) ==
    [status |-> "healthy", api |-> "operational",
     redis |-> IF health_check(client, up) THEN "connected"
               ELSE "disconnected",
     cache_fallback |-> "enabled"]

(***************************************************************************)
(* The store: the products table as the sessions see it (committed rows)   *)
(***************************************************************************)
\* a query without its filter: the first row of the table
Query_unfiltered(db, product_id) == db[SeedId]

\* db.query(Product).filter(Product.id == product_id).first()
Query(db, product_id) == db[product_id]

\* the columns setattr really changed on the loaded instance: the unit of
\* work writes only those
Changed(product, update_data) ==
    {f \in DOMAIN update_data : update_data[f] # product[f]}

\* an UPDATE that also sets the stock to 0 when the body has no stock
UpdateRow_reset(row, product, update_data) ==
    [c \in Columns |->
        IF c \in DOMAIN update_data THEN update_data[c]
        ELSE IF c = "stock_quantity" THEN 0
        ELSE row[c]]

\* UPDATE products SET <changed columns> WHERE id = :id
UpdateRow(row, product, update_data) ==
    [c \in Columns |->
        IF c \in Changed(product, update_data) THEN update_data[c] ELSE row[c]]


\* DELETE FROM products WHERE id = :id
DeleteRow(db, product_id) == [db EXCEPT ![product_id] = None]

(***************************************************************************)
(* What a service call hands back to its caller                            *)
(***************************************************************************)
Found(p) == [kind |-> "product", product |-> p]

NotFound == [kind |-> "None"]

Bool(b) == [kind |-> "bool", value |-> b]

Raised(e) == [kind |-> "error", exc |-> e]

Pending == [kind |-> "pending"]

\* a truth test that takes every dict for false
Truthy_never(d) == FALSE

\* Python truth of an Optional[dict]: None and the empty dict are false
Truthy(d) == d # None /\ DOMAIN d # {}

\* the value get_product_by_id returns on a cache hit
HitResult(cached_product) ==
    LET p == ProductFromDict(cached_product)
    IN  IF "raised" \in DOMAIN p THEN Raised(p.raised) ELSE Found(p)

(***************************************************************************)
(* State                                                                   *)
(***************************************************************************)
VARIABLES
    store,          \* the products table: id -> row or None
    cache,          \* the Redis server's keys: key -> [value, ttl] or None
    redis_client,   \* RedisCache.redis_client: "client" or "None"
    redis_up,       \* whether the Redis server answers
    req,            \* per handler: the request it is serving, and where
    nreq,           \* number of requests accepted so far
    last,           \* history: the latest response handed to a caller
    storeVer,       \* history: number of commits that wrote each id's row
    hist,           \* history: every row the store has held for each id
    acked,          \* history: per id, the writes that have returned success
    storeD,         \* SpecSeq: the store of the service with a degraded cache
    cacheD,         \* SpecSeq: the Redis keys that service cannot reach
    lastD,          \* SpecSeq: the latest result of the degraded service
    prev,           \* SpecSeq: the response before the latest one
    obs             \* SpecFault: what the latest request started from and did

vars == <<store, cache, redis_client, redis_up, req, nreq, last, storeVer,
          hist, acked, storeD, cacheD, lastD, prev, obs>>

\* what only SpecSeq changes
seqOnly == <<storeD, cacheD, lastD, prev>>

\* what only SpecFault changes
faultOnly == <<obs>>

\* what only Spec changes
concOnly == <<req, nreq, storeVer, acked>>

Idle ==
    [op |-> "none", id |-> "-", data |-> None, pc |-> "idle",
     product |-> None,
     alone |-> FALSE, afterDelete |-> FALSE, afterUpdate |-> FALSE,
     startAbsent |-> FALSE, startCached |-> FALSE,
     committed |-> FALSE, commitVer |-> 0,
     invalidated |-> FALSE, dirty |-> FALSE]

NoResponse ==
    [op |-> "none", id |-> "-", result |-> Pending,
     alone |-> FALSE, afterDelete |-> FALSE, afterUpdate |-> FALSE,
     startAbsent |-> FALSE, startCached |-> FALSE, hit |-> FALSE,
     fresh |-> FALSE, endCached |-> FALSE]

SeededStore == [i \in Ids |-> IF i = SeedId THEN SeedRow ELSE None]

NoObs ==
    [store |-> SeededStore, cache |-> EmptyCache, faults |-> {},
     data |-> None, got |-> None, calls |-> <<>>]

Init ==
    /\ store = SeededStore
    /\ cache = EmptyCache
    /\ redis_client = "client"
    /\ redis_up = TRUE
    /\ req = [h \in Handlers |-> Idle]
    /\ nreq = 0
    /\ last = NoResponse
    /\ storeVer = [i \in Ids |-> IF i = SeedId THEN 1 ELSE 0]
    /\ hist = [i \in Ids |-> IF i = SeedId THEN {SeedRow} ELSE {}]
    /\ acked = [i \in Ids |-> {}]
    /\ storeD = SeededStore
    /\ cacheD = EmptyCache
    /\ lastD = Pending
    /\ prev = NoResponse
    /\ obs = NoObs

\* an update_product that invalidates before it commits
update_next_invalidate_first(pc) ==
    CASE pc = "u_query"   -> "u_inval"
      [] pc = "u_inval"   -> "u_commit"
      [] pc = "u_commit"  -> "u_refresh"
      [] pc = "u_refresh" -> "u_ret"

\* the order of the statements of update_product after its lookup
update_next(pc) ==
    CASE pc = "u_query"   -> "u_commit"
      [] pc = "u_commit"  -> "u_refresh"
      [] pc = "u_refresh" -> "u_inval"
      [] pc = "u_inval"   -> "u_ret"

\* the order of the statements of delete_product after its lookup
delete_next(pc) ==
    CASE pc = "d_query"  -> "d_commit"
      [] pc = "d_commit" -> "d_inval"
      [] pc = "d_inval"  -> "d_ret"

(***************************************************************************)
(* Spec: requests arrive and return                                        *)
(***************************************************************************)
\* a free handler takes the next request: the lowest-numbered free one
\* (the handlers are interchangeable)
Free(h) ==
    /\ req[h].pc = "idle"
    /\ nreq < MaxReq
    /\ \A g \in Handlers : g < h => req[g].pc # "idle"

\* the request as its handler starts on it, with what the history knows at
\* that moment
Accepted(h, op, id, data) ==
    [Idle EXCEPT
       !.op = op, !.id = id, !.data = data,
       !.alone = \A g \in Handlers \ {h} : req[g].pc = "idle",
       !.afterDelete = "delete" \in acked[id],
       !.afterUpdate = "update" \in acked[id],
       !.startAbsent = store[id] = None,
       !.startCached = Probe(cache, id) # None]

\* what a direct lookup of the id in the store returns
Lookup(db, product_id) ==
    IF db[product_id] = None THEN NotFound ELSE Found(db[product_id])

\* the response as the history keeps it, with the store db and the Redis
\* keys kv of the moment it is handed back; fresh: it is what a direct lookup
\* in the store returns at that moment
Response(rec, res, hit, db, kv) ==
    [op |-> rec.op, id |-> rec.id, result |-> res, alone |-> rec.alone,
     afterDelete |-> rec.afterDelete, afterUpdate |-> rec.afterUpdate,
     startAbsent |-> rec.startAbsent, startCached |-> rec.startCached,
     hit |-> hit, fresh |-> res = Lookup(db, rec.id),
     endCached |-> Probe(kv, rec.id) # None]

\* the other handlers' requests, once handler h has taken a step: a request
\* that shares any of its time with another is no longer alone, and a write
\* waiting to return sees the cache set under its id
Others(h, setId) ==
    [g \in Handlers |->
        IF g = h \/ req[g].pc = "idle" THEN req[g]
        ELSE [req[g] EXCEPT
                !.alone = FALSE,
                !.dirty = @ \/ (req[g].pc \in {"u_ret", "d_ret"}
                                /\ req[g].id = setId)]]

\* handler h goes on with its request
Continue(h, rec, setId) ==
    /\ req' = [Others(h, setId) EXCEPT ![h] = rec]
    /\ nreq' = IF req[h].pc = "idle" THEN nreq + 1 ELSE nreq
    /\ UNCHANGED <<last, acked, seqOnly, faultOnly>>

\* handler h returns res to the caller
Return(h, rec, res, hit) ==
    /\ req' = [Others(h, "-") EXCEPT ![h] = Idle]
    /\ nreq' = IF req[h].pc = "idle" THEN nreq + 1 ELSE nreq
    /\ last' = Response(rec, res, hit, store, cache)
    /\ acked' = IF rec.op \in {"update", "delete"}
                   /\ res \in {Found(rec.product), Bool(TRUE)}
                THEN [acked EXCEPT ![rec.id] = @ \cup {rec.op}]
                ELSE acked
    /\ UNCHANGED <<seqOnly, faultOnly>>

(***************************************************************************)
(* services.py: ProductService.get_product_by_id                           *)
(***************************************************************************)
\* cache.get_product_from_cache and the hit branch
ReadProbe(h) ==
    /\ Free(h)
    /\ \E id \in Ids :
         LET rec == Accepted(h, "read", id, None)
             cached_product ==
                 get_product_from_cache(redis_client, redis_up, cache, id)
         IN  IF Truthy(cached_product)
             THEN Return(h, rec, HitResult(cached_product), TRUE)
             ELSE Continue(h, [rec EXCEPT !.pc = "r_query"], "-")
    /\ UNCHANGED <<store, cache, redis_client, redis_up, storeVer, hist>>

\* the miss branch: db.query(...).first()
ReadQuery(h) ==
    /\ req[h].pc = "r_query"
    /\ LET product == Query(store, req[h].id)
       IN  IF product = None
           THEN Return(h, req[h], NotFound, FALSE)
           ELSE Continue(h, [req[h] EXCEPT !.pc = "r_set",
                                           !.product = product], "-")
    /\ UNCHANGED <<store, cache, redis_client, redis_up, storeVer, hist>>

\* cache.set_product_in_cache(product.to_dict()), then return product
ReadPopulate(h) ==
    /\ req[h].pc = "r_set"
    /\ cache' = set_product_in_cache(redis_client, redis_up, cache,
                                     to_dict(req[h].product), None)
    /\ req' = [Others(h, IF cache' # cache THEN req[h].id ELSE "-")
                 EXCEPT ![h] = Idle]
    /\ last' = Response(req[h], Found(req[h].product), FALSE, store, cache')
    /\ UNCHANGED <<store, redis_client, redis_up, nreq, storeVer, hist, acked,
                   seqOnly, faultOnly>>

(***************************************************************************)
(* services.py: ProductService.update_product                              *)
(***************************************************************************)
\* db.query(...).first() and the not-found return
UpdateQuery(h) ==
    /\ Free(h)
    /\ \E id \in Ids, data \in UpdateInputs :
         LET rec == Accepted(h, "update", id, data)
             product == Query(store, id)
         IN  IF product = None
             THEN Return(h, rec, NotFound, FALSE)
             ELSE Continue(h, [rec EXCEPT !.pc = update_next("u_query"),
                                          !.product = product], "-")
    /\ UNCHANGED <<store, cache, redis_client, redis_up, storeVer, hist>>

\* setattr for every field of update_data, then db.commit(): one UPDATE of
\* the changed columns, or no statement when nothing changed; an UPDATE that
\* matches no row raises StaleDataError
UpdateCommit(h) ==
    /\ req[h].pc = "u_commit"
    /\ LET id == req[h].id
           changed == Changed(req[h].product, req[h].data)
       IN  IF changed = {}
           THEN /\ Continue(h, [req[h] EXCEPT
                                  !.pc = update_next("u_commit"),
                                  !.committed = TRUE,
                                  !.commitVer = storeVer[id]], "-")
                /\ UNCHANGED <<store, storeVer, hist>>
           ELSE IF store[id] = None
           THEN /\ Return(h, req[h], Raised("StaleDataError"), FALSE)
                /\ UNCHANGED <<store, storeVer, hist>>
           ELSE LET row == UpdateRow(store[id], req[h].product, req[h].data)
                IN  /\ store' = [store EXCEPT ![id] = row]
                    /\ storeVer' = [storeVer EXCEPT ![id] = @ + 1]
                    /\ hist' = [hist EXCEPT ![id] = @ \cup {row}]
                    /\ Continue(h, [req[h] EXCEPT
                                      !.pc = update_next("u_commit"),
                                      !.committed = TRUE,
                                      !.commitVer = storeVer[id] + 1], "-")
    /\ UNCHANGED <<cache, redis_client, redis_up>>

\* db.refresh(product): the row is read again; it raises when the row is gone
UpdateRefresh(h) ==
    /\ req[h].pc = "u_refresh"
    /\ LET row == Query(store, req[h].id)
       IN  IF row = None
           THEN Return(h, req[h], Raised("InvalidRequestError"), FALSE)
           ELSE Continue(h, [req[h] EXCEPT !.pc = update_next("u_refresh"),
                                           !.product = row], "-")
    /\ UNCHANGED <<store, cache, redis_client, redis_up, storeVer, hist>>

\* cache.invalidate_product_cache(product_id)
UpdateInvalidate(h) ==
    /\ req[h].pc = "u_inval"
    /\ cache' = invalidate_product_cache(redis_client, redis_up, cache,
                                         req[h].id)
    /\ Continue(h, [req[h] EXCEPT !.pc = update_next("u_inval"),
                                  !.invalidated = TRUE], "-")
    /\ UNCHANGED <<store, redis_client, redis_up, storeVer, hist>>

\* return product
UpdateReturn(h) ==
    /\ req[h].pc = "u_ret"
    /\ Return(h, req[h], Found(req[h].product), FALSE)
    /\ UNCHANGED <<store, cache, redis_client, redis_up, storeVer, hist>>

(***************************************************************************)
(* services.py: ProductService.delete_product                              *)
(***************************************************************************)
\* db.query(...).first() and the not-found return
DeleteQuery(h) ==
    /\ Free(h)
    /\ \E id \in Ids :
         LET rec == Accepted(h, "delete", id, None)
             product == Query(store, id)
         IN  IF product = None
             THEN Return(h, rec, Bool(FALSE), FALSE)
             ELSE Continue(h, [rec EXCEPT !.pc = delete_next("d_query"),
                                          !.product = product], "-")
    /\ UNCHANGED <<store, cache, redis_client, redis_up, storeVer, hist>>

\* db.delete(product), db.commit(): one DELETE by primary key; a DELETE that
\* matches no row only warns (the mapper has no version column)
DeleteCommit(h) ==
    /\ req[h].pc = "d_commit"
    /\ LET id == req[h].id
           ver == IF store[id] = None THEN storeVer[id] ELSE storeVer[id] + 1
       IN  /\ store' = DeleteRow(store, id)
           /\ storeVer' = [storeVer EXCEPT ![id] = ver]
           /\ Continue(h, [req[h] EXCEPT !.pc = delete_next("d_commit"),
                                         !.committed = TRUE,
                                         !.commitVer = ver], "-")
    /\ UNCHANGED <<cache, redis_client, redis_up, hist>>

\* cache.invalidate_product_cache(product_id)
DeleteInvalidate(h) ==
    /\ req[h].pc = "d_inval"
    /\ cache' = invalidate_product_cache(redis_client, redis_up, cache,
                                         req[h].id)
    /\ Continue(h, [req[h] EXCEPT !.pc = delete_next("d_inval"),
                                  !.invalidated = TRUE], "-")
    /\ UNCHANGED <<store, redis_client, redis_up, storeVer, hist>>

\* return True
DeleteReturn(h) ==
    /\ req[h].pc = "d_ret"
    /\ Return(h, req[h], Bool(TRUE), FALSE)
    /\ UNCHANGED <<store, cache, redis_client, redis_up, storeVer, hist>>

(***************************************************************************)
(* Spec: concurrent request handlers, healthy cache                        *)
(***************************************************************************)
Next ==
    \E h \in Handlers :
        \/ ReadProbe(h)
        \/ ReadQuery(h)
        \/ ReadPopulate(h)
        \/ UpdateQuery(h)
        \/ UpdateCommit(h)
        \/ UpdateRefresh(h)
        \/ UpdateInvalidate(h)
        \/ UpdateReturn(h)
        \/ DeleteQuery(h)
        \/ DeleteCommit(h)
        \/ DeleteInvalidate(h)
        \/ DeleteReturn(h)

Spec == Init /\ [][Next]_vars

(***************************************************************************)
(* services.py: the four operations, each run from call to return with no  *)
(* other request beside it                                                 *)
(***************************************************************************)
\* The calls of one request that fail are its input f, a set of call
\* names: "get", "setex", "delete" are the Redis calls (a transport error),
\* "query", "commit", "refresh" the session's (the store raises). calls is
\* the log of what the request called, in order.
FaultNames == {"get", "setex", "delete", "query", "commit", "refresh"}

NoFaults == {}

\* what fails during one request of SpecFault: nothing, one call, or every
\* Redis call (the server does not answer for as long as the request runs)
FaultSets ==
    {NoFaults, {"get", "setex", "delete"}} \cup {{n} : n \in FaultNames}

\* the faults among fs that can touch a request making the calls in names
FaultsOf(names) == {f \cap names : f \in FaultSets}

\* a commit that swallows the store's exception
db_commit_silent(f, db, db2) == [raised |-> FALSE, db |-> db]

\* db.commit(): the pending changes reach the store, or the store raises
\* and keeps what it had
db_commit(f, db, db2) ==
    IF "commit" \in f THEN [raised |-> TRUE, db |-> db]
    ELSE [raised |-> FALSE, db |-> db2]

\* a create_product that also caches what it created
create_product_cached(client, f, db, kv, id, product_data) ==
    LET c == db_commit(f, db, [db EXCEPT ![id] = NewProduct(id, product_data)])
    IN  [db |-> c.db,
         kv |-> set_product_in_cache(client, "setex" \notin f, kv,
                                     to_dict(NewProduct(id, product_data)),
                                     None),
         result |-> Found(NewProduct(id, product_data)),
         calls |-> <<"db.commit", "db.refresh", "cache.set">>]

\* ProductService.create_product: add, commit, refresh; the cache is not
\* touched. id is the value the id column's default draws.
create_product(client, f, db, kv, id, product_data) ==
    LET c == db_commit(f, db, [db EXCEPT ![id] = NewProduct(id, product_data)])
    IN  IF c.raised
        THEN [db |-> c.db, kv |-> kv, result |-> Raised("OperationalError"),
              calls |-> <<"db.commit">>]
        ELSE IF "refresh" \in f
        THEN [db |-> c.db, kv |-> kv, result |-> Raised("OperationalError"),
              calls |-> <<"db.commit", "db.refresh">>]
        ELSE [db |-> c.db, kv |-> kv, result |-> Found(Query(c.db, id)),
              calls |-> <<"db.commit", "db.refresh">>]

\* a get_product_by_id whose cache hit stores the entry again, with the
\* default TTL
get_product_by_id_refreshing(client, f, db, kv, product_id) ==
    LET cached_product ==
            get_product_from_cache(client, "get" \notin f, kv, product_id)
        key == _get_cache_key(product_id)
    IN  IF Truthy(cached_product)
        THEN [kv |-> RedisSetex(kv, key, CACHE_TTL_SECONDS, kv[key].value),
              result |-> HitResult(cached_product), hit |-> TRUE,
              got |-> cached_product, calls |-> <<"cache.get">>]
        ELSE IF "query" \in f
        THEN [kv |-> kv, result |-> Raised("OperationalError"),
              hit |-> FALSE, got |-> cached_product,
              calls |-> <<"cache.get", "db.query">>]
        ELSE LET product == Query(db, product_id)
             IN  IF product = None
                 THEN [kv |-> kv, result |-> NotFound, hit |-> FALSE,
                       got |-> cached_product,
                       calls |-> <<"cache.get", "db.query">>]
                 ELSE [kv |-> set_product_in_cache(client, "setex" \notin f,
                                                   kv, to_dict(product),
                                                   None),
                       result |-> Found(product), hit |-> FALSE,
                       got |-> cached_product,
                       calls |-> <<"cache.get", "db.query", "cache.set">>]

\* ProductService.get_product_by_id; got is what the connector's get
\* handed back
get_product_by_id(client, f, db, kv, product_id) ==
    LET cached_product ==
            get_product_from_cache(client, "get" \notin f, kv, product_id)
    IN  IF Truthy(cached_product)
        THEN [kv |-> kv, result |-> HitResult(cached_product), hit |-> TRUE,
              got |-> cached_product, calls |-> <<"cache.get">>]
        ELSE IF "query" \in f
        THEN [kv |-> kv, result |-> Raised("OperationalError"),
              hit |-> FALSE, got |-> cached_product,
              calls |-> <<"cache.get", "db.query">>]
        ELSE LET product == Query(db, product_id)
             IN  IF product = None
                 THEN [kv |-> kv, result |-> NotFound, hit |-> FALSE,
                       got |-> cached_product,
                       calls |-> <<"cache.get", "db.query">>]
                 ELSE [kv |-> set_product_in_cache(client, "setex" \notin f,
                                                   kv, to_dict(product),
                                                   None),
                       result |-> Found(product), hit |-> FALSE,
                       got |-> cached_product,
                       calls |-> <<"cache.get", "db.query", "cache.set">>]

\* a return that turns a failed invalidation into a failure of the write
write_result_strict(invalidated, success) ==
    IF invalidated THEN success ELSE Raised("RedisError")

\* the statements after cache.invalidate_product_cache: the write returns
\* its success result, whatever became of the invalidation
write_result(invalidated, success) == success

\* ProductService.update_product
update_product(client, f, db, kv, product_id, update_data) ==
    IF "query" \in f
    THEN [db |-> db, kv |-> kv, result |-> Raised("OperationalError"),
          calls |-> <<"db.query">>]
    ELSE
    LET product == Query(db, product_id)
    IN  IF product = None
        THEN [db |-> db, kv |-> kv, result |-> NotFound,
              calls |-> <<"db.query">>]
        ELSE LET row == UpdateRow(db[product_id], product, update_data)
                 c == db_commit(f, db, [db EXCEPT ![product_id] = row])
             IN  IF c.raised
                 THEN [db |-> c.db, kv |-> kv,
                       result |-> Raised("OperationalError"),
                       calls |-> <<"db.query", "db.commit">>]
                 ELSE IF "refresh" \in f
                 THEN [db |-> c.db, kv |-> kv,
                       result |-> Raised("OperationalError"),
                       calls |-> <<"db.query", "db.commit", "db.refresh">>]
                 ELSE [db |-> c.db,
                       kv |-> invalidate_product_cache(
                                  client, "delete" \notin f, kv, product_id),
                       result |-> write_result(
                                      client # "None" /\ "delete" \notin f,
                                      Found(Query(c.db, product_id))),
                       calls |-> <<"db.query", "db.commit", "db.refresh",
                                   "cache.invalidate">>]

\* a delete_product that leaves the cache as it is
delete_product_cached(client, f, db, kv, product_id) ==
    LET product == Query(db, product_id)
    IN  IF product = None
        THEN [db |-> db, kv |-> kv, result |-> Bool(FALSE),
              calls |-> <<"db.query">>]
        ELSE [db |-> DeleteRow(db, product_id), kv |-> kv,
              result |-> Bool(TRUE), calls |-> <<"db.query", "db.commit">>]

\* a delete_product that invalidates before it looks the product up
delete_product_eager(client, f, db, kv, product_id) ==
    LET product == Query(db, product_id)
        kv2 == invalidate_product_cache(client, "delete" \notin f, kv,
                                        product_id)
    IN  IF product = None
        THEN [db |-> db, kv |-> kv2, result |-> Bool(FALSE),
              calls |-> <<"cache.invalidate", "db.query">>]
        ELSE [db |-> DeleteRow(db, product_id), kv |-> kv2,
              result |-> Bool(TRUE),
              calls |-> <<"cache.invalidate", "db.query", "db.commit">>]

\* ProductService.delete_product
delete_product(client, f, db, kv, product_id) ==
    IF "query" \in f
    THEN [db |-> db, kv |-> kv, result |-> Raised("OperationalError"),
          calls |-> <<"db.query">>]
    ELSE
    LET product == Query(db, product_id)
    IN  IF product = None
        THEN [db |-> db, kv |-> kv, result |-> Bool(FALSE),
              calls |-> <<"db.query">>]
        ELSE LET c == db_commit(f, db, DeleteRow(db, product_id))
             IN  IF c.raised
                 THEN [db |-> c.db, kv |-> kv,
                       result |-> Raised("OperationalError"),
                       calls |-> <<"db.query", "db.commit">>]
                 ELSE [db |-> c.db,
                       kv |-> invalidate_product_cache(
                                  client, "delete" \notin f, kv, product_id),
                       result |-> write_result(
                                      client # "None" /\ "delete" \notin f,
                                      Bool(TRUE)),
                       calls |-> <<"db.query", "db.commit",
                                   "cache.invalidate">>]

(***************************************************************************)
(* SpecSeq: requests one after another. Every request is served twice:     *)
(* by the service with the healthy cache (store, cache, last) and by a     *)
(* service whose connect() failed, so that its redis_client is None        *)
(* (storeD, cacheD, lastD). Both draw the same id for a created product.   *)
(***************************************************************************)
\* keys a Redis server holds that the degraded service cannot reach: the
\* seeded product, cached while the server could still be reached
StrandedCache ==
    RedisSetex(EmptyCache, _get_cache_key(SeedId), CACHE_TTL_SECONDS,
               json_dumps(to_dict(SeedRow)))

InitSeq ==
    /\ store = SeededStore
    /\ cache = EmptyCache
    /\ redis_client = "client"
    /\ redis_up = TRUE
    /\ req = [h \in Handlers |-> Idle]
    /\ nreq = 0
    /\ last = NoResponse
    /\ storeVer = [i \in Ids |-> IF i = SeedId THEN 1 ELSE 0]
    /\ hist = [i \in Ids |-> IF i = SeedId THEN {SeedRow} ELSE {}]
    /\ acked = [i \in Ids |-> {}]
    /\ storeD = SeededStore
    /\ cacheD = StrandedCache
    /\ lastD = Pending
    /\ prev = NoResponse
    /\ obs = NoObs

\* ids the id column's default can still draw: uuid4 repeats none
FreshIds == {i \in Ids : hist[i] = {}}

\* the request as the history keeps it when it starts
Sequential(op, id) ==
    [Idle EXCEPT
       !.op = op, !.id = id, !.alone = TRUE,
       !.startAbsent = store[id] = None,
       !.startCached = Probe(cache, id) # None]

SeqCreate ==
    /\ FreshIds # {}
    /\ \E product_data \in CreateInputs :
         LET id == CHOOSE i \in FreshIds : TRUE
             h == create_product(redis_client, NoFaults, store, cache, id,
                                 product_data)
             d == create_product("None", NoFaults, storeD, cacheD, id,
                                 product_data)
         IN  /\ store' = h.db
             /\ hist' = [hist EXCEPT ![id] = @ \cup {h.db[id]}]
             /\ last' = Response(Sequential("create", id), h.result, FALSE,
                                 h.db, cache)
             /\ storeD' = d.db
             /\ lastD' = d.result
    /\ prev' = last
    /\ UNCHANGED <<cache, cacheD, redis_client, redis_up, concOnly,
                   faultOnly>>

SeqRead ==
    /\ \E id \in Ids :
         LET h == get_product_by_id(redis_client, NoFaults, store, cache, id)
             d == get_product_by_id("None", NoFaults, storeD, cacheD, id)
         IN  /\ cache' = h.kv
             /\ last' = Response(Sequential("read", id), h.result, h.hit,
                                 store, h.kv)
             /\ cacheD' = d.kv
             /\ lastD' = d.result
    /\ prev' = last
    /\ UNCHANGED <<store, storeD, hist, redis_client, redis_up, concOnly,
                   faultOnly>>

SeqUpdate ==
    /\ \E id \in Ids, update_data \in UpdateInputs :
         LET h == update_product(redis_client, NoFaults, store, cache, id,
                                 update_data)
             d == update_product("None", NoFaults, storeD, cacheD, id,
                                 update_data)
         IN  /\ store' = h.db
             /\ cache' = h.kv
             /\ hist' = IF h.db[id] = None THEN hist
                        ELSE [hist EXCEPT ![id] = @ \cup {h.db[id]}]
             /\ last' = Response(Sequential("update", id), h.result, FALSE,
                                 h.db, h.kv)
             /\ storeD' = d.db
             /\ cacheD' = d.kv
             /\ lastD' = d.result
    /\ prev' = last
    /\ UNCHANGED <<redis_client, redis_up, concOnly, faultOnly>>

SeqDelete ==
    /\ \E id \in Ids :
         LET h == delete_product(redis_client, NoFaults, store, cache, id)
             d == delete_product("None", NoFaults, storeD, cacheD, id)
         IN  /\ store' = h.db
             /\ cache' = h.kv
             /\ last' = Response(Sequential("delete", id), h.result, FALSE,
                                 h.db, h.kv)
             /\ storeD' = d.db
             /\ cacheD' = d.kv
             /\ lastD' = d.result
    /\ prev' = last
    /\ UNCHANGED <<hist, redis_client, redis_up, concOnly, faultOnly>>

NextSeq ==
    \/ SeqCreate
    \/ SeqRead
    \/ SeqUpdate
    \/ SeqDelete

SpecSeq == InitSeq /\ [][NextSeq]_vars


(***************************************************************************)
(* SpecWW: the handlers of Spec, serving two writes of the seeded product  *)
(* that may overlap in every way, and after both have ended the reads of   *)
(* that product, one at a time; the product is cached when the writes      *)
(* start.                                                                  *)
(***************************************************************************)
\* the cache after a read of the seeded product
WarmCache ==
    set_product_in_cache("client", TRUE, EmptyCache, to_dict(SeedRow), None)

InitWW ==
    /\ store = SeededStore
    /\ cache = WarmCache
    /\ redis_client = "client"
    /\ redis_up = TRUE
    /\ req = [h \in Handlers |-> Idle]
    /\ nreq = 0
    /\ last = NoResponse
    /\ storeVer = [i \in Ids |-> IF i = SeedId THEN 1 ELSE 0]
    /\ hist = [i \in Ids |-> IF i = SeedId THEN {SeedRow} ELSE {}]
    /\ acked = [i \in Ids |-> {}]
    /\ storeD = SeededStore
    /\ cacheD = EmptyCache
    /\ lastD = Pending
    /\ prev = NoResponse
    /\ obs = NoObs

\* the request handler h has just accepted is for the seeded product
ForSeed(h) ==
    IF req'[h].pc = "idle" THEN last'.id = SeedId ELSE req'[h].id = SeedId

AllIdle == \A h \in Handlers : req[h].pc = "idle"

WWUpdate(h) == nreq < 2 /\ UpdateQuery(h) /\ ForSeed(h)

WWDelete(h) == nreq < 2 /\ DeleteQuery(h) /\ ForSeed(h)

WWRead(h) == nreq >= 2 /\ AllIdle /\ ReadProbe(h) /\ ForSeed(h)

NextWW ==
    \E h \in Handlers :
        \/ WWUpdate(h)
        \/ UpdateCommit(h)
        \/ UpdateRefresh(h)
        \/ UpdateInvalidate(h)
        \/ UpdateReturn(h)
        \/ WWDelete(h)
        \/ DeleteCommit(h)
        \/ DeleteInvalidate(h)
        \/ DeleteReturn(h)
        \/ WWRead(h)
        \/ ReadQuery(h)
        \/ ReadPopulate(h)

SpecWW == InitWW /\ [][NextWW]_vars

(***************************************************************************)
(* SpecFault: requests one after another, each with the calls that fail    *)
(* during it as an input, on a service whose connect() succeeded or        *)
(* failed, and a Redis server whose keys also age, expire and are written  *)
(* by others.                                                              *)
(***************************************************************************)
\* contents under a product's key that are no complete product encoding:
\* a text cut off after its second key, an empty mapping, a mapping without
\* id, one with an empty id, one with fields missing, one with a field the
\* product does not have
CorruptTexts(id) ==
    { << <<"id", id>>, <<"name">> >>,
      << >>,
      << <<"name", "W">>, <<"description", "d">>, <<"price", 10>>,
         <<"stock_quantity", 5>> >>,
      << <<"id", "">>, <<"name", "W">>, <<"description", "d">>,
         <<"price", 10>>, <<"stock_quantity", 5>> >>,
      << <<"id", id>>, <<"name", "W">> >>,
      << <<"id", id>>, <<"name", "W">>, <<"description", "d">>,
         <<"price", 10>>, <<"stock_quantity", 5>>, <<"color", "red">> >> }

\* the ids the reads, updates and deletes of SpecFault ask for: the seeded
\* product, in the store or deleted from it
FaultIds == {SeedId}

\* the request body of the updates of SpecFault
FaultUpdateInputs == {[price |-> 20, stock_quantity |-> 4]}

\* whether a text under the key decodes to a product with all its columns
\* and an id that is not empty
Complete(text) ==
    /\ Parseable(text)
    /\ DOMAIN json_loads(text) = Columns
    /\ json_loads(text).id # ""

InitFault ==
    /\ store = SeededStore
    /\ cache = EmptyCache
    /\ redis_client \in {"client", "None"}
    /\ redis_up = TRUE
    /\ req = [h \in Handlers |-> Idle]
    /\ nreq = 0
    /\ last = NoResponse
    /\ storeVer = [i \in Ids |-> IF i = SeedId THEN 1 ELSE 0]
    /\ hist = [i \in Ids |-> IF i = SeedId THEN {SeedRow} ELSE {}]
    /\ acked = [i \in Ids |-> {}]
    /\ storeD = SeededStore
    /\ cacheD = EmptyCache
    /\ lastD = Pending
    /\ prev = NoResponse
    /\ obs = NoObs

\* what the request started from and did
Observed(f, data, got, calls) ==
    [store |-> store, cache |-> cache, faults |-> f, data |-> data,
     got |-> got, calls |-> calls]

FaultCreate ==
    /\ FreshIds # {}
    /\ \E product_data \in CreateInputs, f \in FaultsOf({"commit", "refresh"}) :
         LET id == CHOOSE i \in FreshIds : TRUE
             h == create_product(redis_client, f, store, cache, id,
                                 product_data)
         IN  /\ store' = h.db
             /\ cache' = h.kv
             /\ hist' = IF h.db[id] = None THEN hist
                        ELSE [hist EXCEPT ![id] = @ \cup {h.db[id]}]
             /\ last' = Response(Sequential("create", id), h.result, FALSE,
                                 h.db, h.kv)
             /\ obs' = Observed(f, product_data, None, h.calls)
    /\ UNCHANGED <<redis_client, redis_up, concOnly, seqOnly>>

FaultRead ==
    /\ \E id \in FaultIds, f \in FaultsOf({"get", "query", "setex"}) :
         LET h == get_product_by_id(redis_client, f, store, cache, id)
         IN  /\ cache' = h.kv
             /\ last' = Response(Sequential("read", id), h.result, h.hit,
                                 store, h.kv)
             /\ obs' = Observed(f, None, h.got, h.calls)
    /\ UNCHANGED <<store, hist, redis_client, redis_up, concOnly, seqOnly>>

FaultUpdate ==
    /\ \E id \in FaultIds, update_data \in FaultUpdateInputs,
          f \in FaultsOf({"query", "commit", "refresh", "delete"}) :
         LET h == update_product(redis_client, f, store, cache, id,
                                 update_data)
         IN  /\ store' = h.db
             /\ cache' = h.kv
             /\ hist' = IF h.db[id] = None THEN hist
                        ELSE [hist EXCEPT ![id] = @ \cup {h.db[id]}]
             /\ last' = Response(Sequential("update", id), h.result, FALSE,
                                 h.db, h.kv)
             /\ obs' = Observed(f, update_data, None, h.calls)
    /\ UNCHANGED <<redis_client, redis_up, concOnly, seqOnly>>

FaultDelete ==
    /\ \E id \in FaultIds, f \in FaultsOf({"query", "commit", "delete"}) :
         LET h == delete_product(redis_client, f, store, cache, id)
         IN  /\ store' = h.db
             /\ cache' = h.kv
             /\ last' = Response(Sequential("delete", id), h.result, FALSE,
                                 h.db, h.kv)
             /\ obs' = Observed(f, None, None, h.calls)
    /\ UNCHANGED <<hist, redis_client, redis_up, concOnly, seqOnly>>

\* another writer of the Redis server leaves a text under the seeded
\* product's key that is no complete product encoding
Tamper ==
    /\ \E text \in CorruptTexts(SeedId) :
         cache' = RedisSetex(cache, _get_cache_key(SeedId),
                             CACHE_TTL_SECONDS, text)
    /\ last' = NoResponse
    /\ obs' = NoObs
    /\ UNCHANGED <<store, hist, redis_client, redis_up, concOnly, seqOnly>>

\* half of CACHE_TTL_SECONDS passes: an entry set since the last half has
\* half of its time left, an older one expires
Elapse ==
    /\ cache' = [k \in Keys |->
                    IF cache[k] = None THEN None
                    ELSE IF cache[k].ttl = CACHE_TTL_SECONDS
                    THEN [cache[k] EXCEPT !.ttl = CACHE_TTL_SECONDS \div 2]
                    ELSE None]
    /\ cache' # cache
    /\ last' = NoResponse
    /\ obs' = NoObs
    /\ UNCHANGED <<store, hist, redis_client, redis_up, concOnly, seqOnly>>

NextFault ==
    \/ FaultCreate
    \/ FaultRead
    \/ FaultUpdate
    \/ FaultDelete
    \/ Tamper
    \/ Elapse

SpecFault == InitFault /\ [][NextFault]_vars

(***************************************************************************)
(* SpecTTL: the requests of SpecFault and the passing of time, on a Redis  *)
(* server no one else writes to; an update can also stop between its       *)
(* commit and its invalidation.                                            *)
(***************************************************************************)
\* an update_product whose request ends after db.refresh: the handler is
\* cancelled, or its process stops, before cache.invalidate_product_cache
UpdateStopped ==
    /\ \E id \in FaultIds, update_data \in FaultUpdateInputs :
         LET h == update_product(redis_client, NoFaults, store, cache, id,
                                 update_data)
         IN  /\ h.result.kind = "product"
             /\ store' = h.db
             /\ hist' = [hist EXCEPT ![id] = @ \cup {h.db[id]}]
             /\ last' = Response(Sequential("update", id),
                                 Raised("CancelledError"), FALSE, h.db, cache)
             /\ obs' = Observed(NoFaults, update_data, None,
                                <<"db.query", "db.commit", "db.refresh">>)
    /\ UNCHANGED <<cache, redis_client, redis_up, concOnly, seqOnly>>

NextTTL ==
    \/ FaultCreate
    \/ FaultRead
    \/ FaultUpdate
    \/ FaultDelete
    \/ UpdateStopped
    \/ Elapse

SpecTTL == InitFault /\ [][NextTTL]_vars

(***************************************************************************)
(* SpecConn: the connector's methods called one after another, as the      *)
(* service and the /health endpoint call them and with every argument the  *)
(* methods accept, against a Redis server that stops answering and answers *)
(* again. connect() ran once, in the constructor.                          *)
(***************************************************************************)
\* the second sample product of seed_database, under the other id
OtherRow ==
    [id |-> "b", name |-> "K", description |-> "d", price |-> 90,
     stock_quantity |-> 75]

\* dicts handed to set_product_in_cache: products, a dict without id and
\* one whose id is empty
SetInputs ==
    { to_dict(SeedRow),
      to_dict([SeedRow EXCEPT !.price = 20]),
      to_dict(OtherRow),
      [name |-> "W", description |-> "d", price |-> 10, stock_quantity |-> 5],
      to_dict([SeedRow EXCEPT !.id = ""]) }

\* the ttl_seconds argument: left out, positive, zero, negative
TtlInputs == {None, Seconds(60), Seconds(0), Seconds(-1)}

InitConn ==
    /\ store = SeededStore
    /\ cache \in {EmptyCache, StrandedCache}
    /\ redis_up \in BOOLEAN
    /\ redis_client = connect(redis_up)
    /\ req = [h \in Handlers |-> Idle]
    /\ nreq = 0
    /\ last = NoResponse
    /\ storeVer = [i \in Ids |-> IF i = SeedId THEN 1 ELSE 0]
    /\ hist = [i \in Ids |-> IF i = SeedId THEN {SeedRow} ELSE {}]
    /\ acked = [i \in Ids |-> {}]
    /\ storeD = SeededStore
    /\ cacheD = EmptyCache
    /\ lastD = Pending
    /\ prev = NoResponse
    /\ obs = NoObs

\* what a connector method handed back, as the history keeps it
Returned(op, id, value) ==
    [NoResponse EXCEPT !.op = op, !.id = id,
                       !.result = [kind |-> "value", value |-> value]]

\* cache.get_product_from_cache(product_id)
ConnGet ==
    /\ \E id \in Ids :
         LET got == get_product_from_cache(redis_client, redis_up, cache, id)
         IN  /\ last' = Returned("get", id, got)
             /\ obs' = Observed(NoFaults, None, got, <<"cache.get">>)
    /\ UNCHANGED <<store, cache, hist, redis_client, redis_up, concOnly,
                   seqOnly>>

\* cache.set_product_in_cache(product_dict, ttl_seconds)
ConnSet ==
    /\ \E product_dict \in SetInputs, ttl_seconds \in TtlInputs :
         /\ cache' = set_product_in_cache(redis_client, redis_up, cache,
                                          product_dict, ttl_seconds)
         /\ last' = Returned("set",
                             IF NoId(product_dict) THEN "-"
                             ELSE product_dict.id, None)
         /\ obs' = Observed(NoFaults,
                            [product_dict |-> product_dict,
                             ttl_seconds |-> ttl_seconds],
                            None, <<"cache.set">>)
    /\ UNCHANGED <<store, hist, redis_client, redis_up, concOnly, seqOnly>>

\* cache.invalidate_product_cache(product_id)
ConnInvalidate ==
    /\ \E id \in Ids :
         /\ cache' = invalidate_product_cache(redis_client, redis_up, cache,
                                              id)
         /\ last' = Returned("invalidate", id, None)
         /\ obs' = Observed(NoFaults, None, None, <<"cache.invalidate">>)
    /\ UNCHANGED <<store, hist, redis_client, redis_up, concOnly, seqOnly>>

\* GET /health: cache.health_check() and the response built from it
ConnHealth ==
    /\ last' = [NoResponse EXCEPT
                  !.op = "health",
                  !.result = [kind |-> "health",
                              value |-> health_check(redis_client, redis_up),
                              body |-> main_health_check(redis_client,
                                                         redis_up)]]
    /\ obs' = Observed(NoFaults, None, None, <<"cache.health">>)
    /\ UNCHANGED <<store, cache, hist, redis_client, redis_up, concOnly,
                   seqOnly>>

\* product_service.get_product_by_id(db, product_id); while the server
\* does not answer, every Redis call of the request fails
ConnRead ==
    /\ \E id \in Ids :
         LET f == IF redis_up THEN NoFaults ELSE {"get", "setex"}
             h == get_product_by_id(redis_client, f, store, cache, id)
         IN  /\ cache' = h.kv
             /\ last' = Response(Sequential("read", id), h.result, h.hit,
                                 store, h.kv)
             /\ obs' = Observed(f, None, h.got, h.calls)
    /\ UNCHANGED <<store, hist, redis_client, redis_up, concOnly, seqOnly>>

\* the Redis server stops answering
Outage ==
    /\ redis_up
    /\ redis_up' = FALSE
    /\ last' = NoResponse
    /\ obs' = NoObs
    /\ UNCHANGED <<store, cache, hist, redis_client, concOnly, seqOnly>>

\* the Redis server answers again
Recover ==
    /\ ~redis_up
    /\ redis_up' = TRUE
    /\ last' = NoResponse
    /\ obs' = NoObs
    /\ UNCHANGED <<store, cache, hist, redis_client, concOnly, seqOnly>>

NextConn ==
    \/ ConnGet
    \/ ConnSet
    \/ ConnInvalidate
    \/ ConnHealth
    \/ ConnRead
    \/ Outage
    \/ Recover

SpecConn == InitConn /\ [][NextConn]_vars

(***************************************************************************)
(* SpecCodec: one product is encoded into the cache as a read miss encodes *)
(* it, and decoded from it as a read hit decodes it.                       *)
(***************************************************************************)
\* products the schemas accept: a name and a description that are not
\* empty, a positive price, a stock that is not negative
CodecProducts ==
    { [id |-> i, name |-> n, description |-> d, price |-> p,
       stock_quantity |-> q] :
        i \in Ids, n \in {"W", "V"}, d \in {"d", "e"}, p \in {10, 20},
        q \in {0, 5, 10} }

InitCodec ==
    /\ store = SeededStore
    /\ cache = EmptyCache
    /\ redis_client = "client"
    /\ redis_up = TRUE
    /\ req = [h \in Handlers |-> Idle]
    /\ nreq = 0
    /\ last = NoResponse
    /\ storeVer = [i \in Ids |-> IF i = SeedId THEN 1 ELSE 0]
    /\ hist = [i \in Ids |-> IF i = SeedId THEN {SeedRow} ELSE {}]
    /\ acked = [i \in Ids |-> {}]
    /\ storeD = SeededStore
    /\ cacheD = EmptyCache
    /\ lastD = Pending
    /\ prev = NoResponse
    /\ \E product \in CodecProducts : obs = [NoObs EXCEPT !.data = product]

\* cache.set_product_in_cache(product.to_dict())
Encode ==
    /\ last.op = "none"
    /\ cache' = set_product_in_cache(redis_client, redis_up, cache,
                                     to_dict(obs.data), None)
    /\ last' = Returned("set", obs.data.id, None)
    /\ UNCHANGED <<store, hist, redis_client, redis_up, obs, concOnly,
                   seqOnly>>

\* cache.get_product_from_cache(product_id) and the hit branch of
\* get_product_by_id
Decode ==
    /\ last.op = "set"
    /\ LET cached_product ==
               get_product_from_cache(redis_client, redis_up, cache, last.id)
       IN  /\ last' = [NoResponse EXCEPT
                         !.op = "decode", !.id = last.id,
                         !.result = IF Truthy(cached_product)
                                    THEN HitResult(cached_product)
                                    ELSE NotFound]
           /\ obs' = [obs EXCEPT !.got = cached_product]
    /\ UNCHANGED <<store, cache, hist, redis_client, redis_up, concOnly,
                   seqOnly>>

NextCodec ==
    \/ Encode
    \/ Decode

SpecCodec == InitCodec /\ [][NextCodec]_vars

(***************************************************************************)
(* SpecFrame: updates with every shape of body, reads and deletes, one     *)
(* after another.                                                          *)
(***************************************************************************)
\* bodies of PUT as model_dump(exclude_unset=True) returns them: the two of
\* UpdateInputs, one that repeats the name the product has, one with the
\* description alone, and the empty body
FrameInputs ==
    UpdateInputs \cup
    { [name |-> "W", price |-> 20],
      [description |-> "e"],
      [c \in {} |-> 0] }

FrameUpdate ==
    /\ \E id \in Ids, update_data \in FrameInputs :
         LET h == update_product(redis_client, NoFaults, store, cache, id,
                                 update_data)
         IN  /\ store' = h.db
             /\ cache' = h.kv
             /\ hist' = IF h.db[id] = None THEN hist
                        ELSE [hist EXCEPT ![id] = @ \cup {h.db[id]}]
             /\ last' = Response(Sequential("update", id), h.result, FALSE,
                                 h.db, h.kv)
             /\ obs' = Observed(NoFaults, update_data, None, h.calls)
    /\ UNCHANGED <<redis_client, redis_up, concOnly, seqOnly>>

NextFrame ==
    \/ FrameUpdate
    \/ FaultRead
    \/ FaultDelete

SpecFrame == InitFault /\ [][NextFrame]_vars

(***************************************************************************)
(* SpecTwo: the handlers of Spec serving MaxReqTwo requests, for either of  *)
(* two products the store holds, that may overlap in every way; the        *)
(* products are both cached when the requests start, or neither is.        *)
(***************************************************************************)
\* the cache after a read of each of the two products
WarmBoth ==
    set_product_in_cache("client", TRUE, WarmCache, to_dict(OtherRow), None)

InitTwo ==
    /\ store = [i \in Ids |-> IF i = SeedId THEN SeedRow ELSE OtherRow]
    /\ cache \in {EmptyCache, WarmBoth}
    /\ redis_client = "client"
    /\ redis_up = TRUE
    /\ req = [h \in Handlers |-> Idle]
    /\ nreq = 0
    /\ last = NoResponse
    /\ storeVer = [i \in Ids |-> 1]
    /\ hist = [i \in Ids |-> {IF i = SeedId THEN SeedRow ELSE OtherRow}]
    /\ acked = [i \in Ids |-> {}]
    /\ storeD = SeededStore
    /\ cacheD = EmptyCache
    /\ lastD = Pending
    /\ prev = NoResponse
    /\ obs = NoObs

TwoRead(h) == nreq < MaxReqTwo /\ ReadProbe(h)

TwoUpdate(h) == nreq < MaxReqTwo /\ UpdateQuery(h)

TwoDelete(h) == nreq < MaxReqTwo /\ DeleteQuery(h)

NextTwo ==
    \E h \in Handlers :
        \/ TwoRead(h)
        \/ ReadQuery(h)
        \/ ReadPopulate(h)
        \/ TwoUpdate(h)
        \/ UpdateCommit(h)
        \/ UpdateRefresh(h)
        \/ UpdateInvalidate(h)
        \/ UpdateReturn(h)
        \/ TwoDelete(h)
        \/ DeleteCommit(h)
        \/ DeleteInvalidate(h)
        \/ DeleteReturn(h)

SpecTwo == InitTwo /\ [][NextTwo]_vars

(***************************************************************************)
(* Properties of Spec                                                      *)
(***************************************************************************)
\* the product a cache entry decodes to
Decoded(entry) == ProductFromDict(json_loads(entry))

Writers == {h \in Handlers : req[h].op \in {"update", "delete"}}

\* C1: in every update or delete request the cache invalidation is issued
\* only after that same request's commit has completed: a request that has
\* issued its invalidation has committed before.
C1_CommitBeforeInvalidate ==
    \A h \in Writers : req[h].invalidated => req[h].committed

\* C1 witness: a delete of a cached product has committed and then
\* invalidated, and is about to return.
C1_Witness ==
    \E h \in Writers :
        /\ req[h].op = "delete"
        /\ req[h].pc = "d_ret"
        /\ req[h].startCached
        /\ req[h].committed
        /\ req[h].invalidated

\* C2: once an update's invalidation of X has completed, the cache never
\* holds an entry for X older than that update's committed value: while the
\* row that update committed is still the store's row, an entry for X
\* decodes to that row.
C2_NoStaleEntryAfterInvalidation ==
    \A h \in Writers :
        (/\ req[h].op = "update"
         /\ req[h].invalidated
         /\ req[h].commitVer = storeVer[req[h].id]
         /\ store[req[h].id] # None
         /\ Probe(cache, req[h].id) # None)
        => Decoded(Probe(cache, req[h].id)) = store[req[h].id]

\* C3: after an update of X and a read of X that ran concurrently have both
\* completed, a subsequent read of X returns the post-update value: a read
\* that starts after an update of X has returned, and runs with no other
\* request in flight, returns what the store holds.
C3_ReadAfterUpdateConverges ==
    (last.op = "read" /\ last.alone /\ last.afterUpdate) => last.fresh

\* C4: a read of X, also one concurrent with an update that changes several
\* fields at once, never returns a mix of old and new field values: the
\* five fields of the record it returns are those of one record the store
\* has held for X, before or after an update.
C4_ReadNeverTorn ==
    (last.op = "read" /\ last.result.kind = "product")
    => last.result.product \in hist[last.id]

\* C4 witness: a read that overlapped an update of two fields returned the
\* complete pre-update record while the store already held the updated one.
C4_Witness ==
    /\ last.op = "read"
    /\ ~last.alone
    /\ last.result = Found(SeedRow)
    /\ store[SeedId] # None
    /\ store[SeedId].price = 20
    /\ store[SeedId].stock_quantity = 4

C6_ReadAfterDeleteNotFound ==
    (last.op = "read" /\ last.afterDelete) => last.result = NotFound

\* C7 (as claimed): a read, update or delete of an id that has no record
\* in the store returns NotFound (None for read and update, False for
\* delete); when no other request ran beside it, the cache holds no entry
\* for that id afterwards that was not there before.
C7_AbsentIdNotFound ==
    (last.op \in {"read", "update", "delete"} /\ last.startAbsent)
    => /\ last.result = IF last.op = "delete" THEN Bool(FALSE) ELSE NotFound
       /\ last.alone => (last.endCached => last.startCached)

\* C7 (amended): a read of an id that has no record in the store and that
\* misses the cache, and an update or delete of an id that has no record in
\* the store, returns NotFound (None for read and update, False for delete);
\* when no other request ran beside it, the cache holds no entry for that id
\* afterwards that was not there before.
C7_AbsentIdNotFoundOnMiss ==
    (last.op \in {"read", "update", "delete"} /\ last.startAbsent
        /\ ~last.hit)
    => /\ last.result = IF last.op = "delete" THEN Bool(FALSE) ELSE NotFound
       /\ last.alone => (last.endCached => last.startCached)

\* C7 witness: a read of an id that was never stored has returned NotFound
\* and left no cache entry.
C7_Witness ==
    /\ last.op = "read"
    /\ last.id # SeedId
    /\ last.startAbsent
    /\ last.alone
    /\ last.result = NotFound
    /\ ~last.endCached

\* every entry of the cache decodes to a row the store has held for the
\* entry's id
EntriesFromStore ==
    \A id \in Ids :
        Probe(cache, id) # None
        => /\ Parseable(Probe(cache, id))
           /\ Decoded(Probe(cache, id)) \in hist[id]

\* a step that puts a new text under a key is the last step of a read of
\* the key's id that found the record in the store
EntriesFromReads ==
    \A id \in Ids :
        (/\ cache'[_get_cache_key(id)] # cache[_get_cache_key(id)]
         /\ cache'[_get_cache_key(id)] # None)
        => \E h \in Handlers :
               /\ req[h].op = "read"
               /\ req[h].pc = "r_set"
               /\ req[h].id = id
               /\ req[h].product \in hist[id]
               /\ req'[h].pc = "idle"

\* C20: in every reachable state every cache entry under key(X) is the
\* encoding of a value the store held for X then or earlier (stale perhaps,
\* never fabricated), and an entry is created only by a read that found the
\* record in the store.
C20_EntriesNeverFabricated ==
    /\ []EntriesFromStore
    /\ [][EntriesFromReads]_vars

\* C20 witness: the cache holds an entry for a product that is stale: it
\* decodes to a row the store held earlier and holds no longer.
C20_Witness ==
    \E id \in Ids :
        /\ Probe(cache, id) # None
        /\ store[id] # None
        /\ Decoded(Probe(cache, id)) # store[id]
        /\ Decoded(Probe(cache, id)) \in hist[id]

(***************************************************************************)
(* Properties of SpecSeq                                                   *)
(***************************************************************************)
\* C8: for every sequence of create, read, update and delete requests run
\* one after another, the result the service with the degraded connector
\* returns equals the result the service with the healthy cache returns,
\* and the degraded service never creates or removes a cache entry.
C8_DegradedEqualsHealthy ==
    /\ lastD = last.result
    /\ cacheD = StrandedCache

\* C8 witness: the healthy service has answered a read from its cache, with
\* a product an update had renamed, and the degraded service, which went to
\* its store, has returned the same.
C8_Witness ==
    /\ last.op = "read"
    /\ last.hit
    /\ last.result.kind = "product"
    /\ last.result.product.name = "V"
    /\ lastD = last.result
    /\ cacheD = StrandedCache

\* C9: with requests run one at a time on a healthy cache, every read of an
\* id returns exactly what a direct lookup of the id in the store returns at
\* that moment.
C9_ReadEqualsStoreLookup ==
    last.op = "read" => last.result = Lookup(store, last.id)

\* C9 witness: a read that follows the update of a cached product has
\* returned the updated price.
C9_Witness ==
    /\ prev.op = "update"
    /\ prev.startCached
    /\ last.op = "read"
    /\ last.id = prev.id
    /\ last.result.kind = "product"
    /\ last.result.product.price = 20
    /\ last.result = Lookup(store, last.id)

\* C10: a read that misses the cache while the id is in the store returns
\* the store's record and leaves under the id's key a decodable entry equal
\* to that record; a read of the same id that follows it immediately
\* returns a record identical in every field.
C10_MissPopulates ==
    /\ (last.op = "read" /\ ~last.hit /\ store[last.id] # None)
       => /\ last.result = Found(store[last.id])
          /\ Probe(cache, last.id) # None
          /\ Decoded(Probe(cache, last.id)) = store[last.id]
    /\ (prev.op = "read" /\ ~prev.hit /\ prev.result.kind = "product"
            /\ last.op = "read" /\ last.id = prev.id)
       => last.result = prev.result

\* C10 witness: a read that missed and found the product is followed by a
\* read of the same id that hits the cache and returns the same record.
C10_Witness ==
    /\ prev.op = "read"
    /\ ~prev.hit
    /\ prev.result.kind = "product"
    /\ last.op = "read"
    /\ last.id = prev.id
    /\ last.hit
    /\ last.result = prev.result
    /\ Decoded(Probe(cache, last.id)) = store[last.id]

(***************************************************************************)
(* Properties of SpecFault                                                 *)
(***************************************************************************)
\* whether the latest request made the call
Called(c) == \E i \in DOMAIN obs.calls : obs.calls[i] = c

\* what was under the key of the latest request's id when it started
EntryBefore == obs.cache[_get_cache_key(last.id)]

\* whether the connector could not reach Redis for the call
CacheCallFailed(call) == redis_client = "None" \/ call \in obs.faults

\* C11: a read that finds a decodable cache entry for its id returns the
\* decoded product, issues no store query, and writes neither to the store
\* nor to the cache: the entry and its TTL are as they were.
C11_HitTouchesNothing ==
    (/\ last.op = "read"
     /\ ~CacheCallFailed("get")
     /\ EntryBefore # None
     /\ Complete(EntryBefore.value))
    => /\ last.result = Found(Decoded(EntryBefore.value))
       /\ ~Called("db.query")
       /\ ~Called("cache.set")
       /\ store = obs.store
       /\ cache = obs.cache

\* C11 witness: a read has been answered from an entry with half of its TTL
\* left, whose product the store no longer holds, and the entry is as it
\* was.
C11_Witness ==
    /\ last.op = "read"
    /\ last.hit
    /\ EntryBefore # None
    /\ EntryBefore.ttl = CACHE_TTL_SECONDS \div 2
    /\ store[last.id] = None
    /\ last.result = Found(SeedRow)
    /\ cache = obs.cache

\* C12: for every content under key(X) that is not a complete product
\* encoding (unparseable, a mapping without id or with an empty id, with
\* fields missing or extra), a read of X gives the outcome it gives when the
\* entry is absent: the store's record or NotFound, never the corrupt
\* content and never an error.
C12_CorruptEntryIsMiss ==
    (/\ last.op = "read"
     /\ EntryBefore # None
     /\ ~Complete(EntryBefore.value)
     /\ "query" \notin obs.faults)
    => last.result = Lookup(obs.store, last.id)

\* the row an update with the latest request's body makes of the row the
\* request started from
RowAfterUpdate ==
    UpdateRow(obs.store[last.id], obs.store[last.id], obs.data)

\* C13: when the cache invalidation of an update or delete fails (degraded
\* connector, or a transport error on the delete call), the store mutation
\* stays committed and the write returns the success result it returns when
\* the invalidation succeeds: the updated record, or True for a delete.
C13_InvalidationFailureKeepsWrite ==
    (/\ last.op \in {"update", "delete"}
     /\ Called("cache.invalidate")
     /\ CacheCallFailed("delete"))
    => IF last.op = "update"
       THEN /\ store = [obs.store EXCEPT ![last.id] = RowAfterUpdate]
            /\ last.result = Found(RowAfterUpdate)
       ELSE /\ store = [obs.store EXCEPT ![last.id] = None]
            /\ last.result = Bool(TRUE)

\* C13 witness: an update of a cached product whose delete call on Redis
\* failed has committed the new price and returned the updated record; the
\* entry is still there.
C13_Witness ==
    /\ last.op = "update"
    /\ redis_client = "client"
    /\ "delete" \in obs.faults
    /\ Called("cache.invalidate")
    /\ EntryBefore # None
    /\ cache = obs.cache
    /\ store[last.id] # None
    /\ store[last.id].price = 20
    /\ last.result = Found(store[last.id])

\* C14: when the cache population of a read miss fails (degraded
\* connector, or a transport error on the set call), the read still returns
\* the record the store returned, and the cache is left without a new entry
\* for the id.
C14_PopulationFailureKeepsRead ==
    (/\ last.op = "read"
     /\ Called("cache.set")
     /\ CacheCallFailed("setex"))
    => /\ last.result = Found(obs.store[last.id])
       /\ cache[_get_cache_key(last.id)] = EntryBefore

\* C14 witness: a read on a healthy connector missed the cache, found the
\* product in the store, failed to set it, and returned it; the key is
\* still absent.
C14_Witness ==
    /\ last.op = "read"
    /\ redis_client = "client"
    /\ obs.faults = {"setex"}
    /\ Called("cache.set")
    /\ EntryBefore = None
    /\ last.result = Found(SeedRow)
    /\ Probe(cache, last.id) = None

\* C15: the connector's get never raises: it returns absent when the key
\* is missing or expired, when the connector is degraded, and when the
\* cache call fails with a transport error; it returns the stored value only
\* when the cache call succeeded and the key was present.
C15_GetNeverRaises ==
    last.op = "read"
    => /\ ~IsRaised(obs.got)
       /\ (CacheCallFailed("get") \/ EntryBefore = None) => obs.got = None
       /\ obs.got # None
          => /\ ~CacheCallFailed("get")
             /\ EntryBefore # None
             /\ obs.got = json_loads(EntryBefore.value)

\* C15 witness: the GET of a read failed with a transport error while the
\* key held an entry, and the connector handed back absent.
C15_Witness ==
    /\ last.op = "read"
    /\ redis_client = "client"
    /\ "get" \in obs.faults
    /\ EntryBefore # None
    /\ Complete(EntryBefore.value)
    /\ obs.got = None
    /\ ~last.hit

\* C16: when the store raises during the commit of an update or delete,
\* the request surfaces a failure (neither NotFound nor success) and makes
\* no cache invalidation; when the store raises during the query of a read,
\* the read surfaces a failure and writes nothing to the cache.
C16_StoreFailureSurfaces ==
    /\ (/\ last.op \in {"update", "delete"}
        /\ "commit" \in obs.faults
        /\ Called("db.commit"))
       => /\ last.result.kind = "error"
          /\ ~Called("cache.invalidate")
          /\ cache = obs.cache
    /\ (/\ last.op = "read"
        /\ "query" \in obs.faults
        /\ Called("db.query"))
       => /\ last.result.kind = "error"
          /\ ~Called("cache.set")
          /\ cache = obs.cache

\* C16 witness: the commit of a delete of a cached product has raised; the
\* request ended in the error, and the row and the cache entry are both
\* still there.
C16_Witness ==
    /\ last.op = "delete"
    /\ redis_client = "client"
    /\ "commit" \in obs.faults
    /\ Called("db.commit")
    /\ last.result = Raised("OperationalError")
    /\ store[last.id] # None
    /\ EntryBefore # None
    /\ cache = obs.cache

\* C17: a create performs no cache operation (no get, set or delete on the
\* connector), every cache entry present before it is unchanged after it,
\* and the created record is stored under an id that no record in the store
\* had before.
C17_CreateLeavesCache ==
    last.op = "create"
    => /\ ~Called("cache.get")
       /\ ~Called("cache.set")
       /\ ~Called("cache.invalidate")
       /\ cache = obs.cache
       /\ last.result.kind = "product"
          => /\ obs.store[last.id] = None
             /\ store = [obs.store EXCEPT ![last.id] = last.result.product]
             /\ last.result.product.id = last.id

\* C17 witness: a product was created while the cache held an entry for
\* another product; that entry is as it was and the new id has none.
C17_Witness ==
    /\ last.op = "create"
    /\ last.result.kind = "product"
    /\ redis_client = "client"
    /\ Probe(obs.cache, SeedId) # None
    /\ cache = obs.cache
    /\ Probe(cache, last.id) = None
    /\ store[last.id] = last.result.product

\* C18: an update or delete whose id is not in the store changes nothing:
\* the store is unchanged, no invalidation call is made, and a cache entry
\* that exists for the id is left in place.
C18_AbsentWriteChangesNothing ==
    (/\ last.op \in {"update", "delete"}
     /\ obs.store[last.id] = None)
    => /\ store = obs.store
       /\ ~Called("cache.invalidate")
       /\ cache = obs.cache

\* C18 witness: a delete of an id the store no longer holds, for which the
\* cache still has an entry, has returned False and the entry is in place.
C18_Witness ==
    /\ last.op = "delete"
    /\ redis_client = "client"
    /\ obs.faults = {}
    /\ obs.store[last.id] = None
    /\ EntryBefore # None
    /\ last.result = Bool(FALSE)
    /\ Probe(cache, last.id) # None
    /\ cache = obs.cache

(***************************************************************************)
(* Properties of SpecWW                                                    *)
(***************************************************************************)
\* both writes have started and no write still has its invalidation ahead
InvalidationsDone ==
    /\ nreq >= 2
    /\ \A h \in Writers : req[h].invalidated

\* no read has started yet
NoReadYet ==
    /\ last.op # "read"
    /\ \A h \in Handlers : req[h].op # "read"

\* C19: for two concurrent writes (update or delete) to the same id X with
\* a healthy cache and no concurrent read, in every interleaving of their
\* commits and invalidations the cache has no entry for X once the later of
\* the invalidations has completed, and the read of X that follows returns
\* the value the store holds at that time.
C19_WritesConvergeToAbsent ==
    /\ (InvalidationsDone /\ NoReadYet) => Probe(cache, SeedId) = None
    /\ last.op = "read" => last.result = Lookup(store, last.id)

\* C19 witness: an update and a delete of the cached product overlapped,
\* both have committed and invalidated and are about to return, and the
\* cache has no entry for the product.
C19_Witness ==
    \E g, h \in Handlers :
        /\ req[g].op = "update" /\ req[g].pc = "u_ret"
        /\ req[h].op = "delete" /\ req[h].pc = "d_ret"
        /\ req[g].startCached
        /\ req[h].startCached
        /\ InvalidationsDone
        /\ Probe(cache, SeedId) = None

\* a delete has returned True and another delete, which found the row
\* before the first one's commit, is about to return True as well
BothDeletesSucceed ==
    /\ last.op = "delete"
    /\ last.result = Bool(TRUE)
    /\ \E h \in Handlers : req[h].op = "delete" /\ req[h].pc = "d_ret"

\* C29: store writes behave atomically per request: of two concurrent
\* deletes of the same existing id exactly one returns success (the other
\* NotFound), and an update that runs concurrently with a delete of the
\* same id returns the updated record or NotFound, never an error and never
\* a success for a record the store did not hold.
C29_StoreWritesAtomic ==
    /\ ~BothDeletesSucceed
    /\ (last.op = "update" /\ ~last.alone)
       => /\ last.result.kind \in {"product", "None"}
          /\ last.result.kind = "product"
             => last.result.product \in hist[last.id]

(***************************************************************************)
(* Properties of SpecTTL                                                   *)
(***************************************************************************)
\* the entry under the id's key is not the encoding of the row the store
\* holds for the id
Stale(db, kv, id) ==
    /\ Probe(kv, id) # None
    /\ Decoded(Probe(kv, id)) # db[id]

\* a read answered from the cache leaves every entry and its TTL as it was
HitLeavesEntry ==
    (last.op = "read" /\ last.hit) => cache = obs.cache

\* a read that starts when the id has no entry (never set, invalidated or
\* expired) and whose query the store answers returns the store's row
ExpiredReadsStore ==
    (/\ last.op = "read"
     /\ EntryBefore = None
     /\ "query" \notin obs.faults)
    => last.result = Lookup(store, last.id)

\* a step leaves a stale entry as it was, or with less of its TTL, or
\* without the entry, or with the encoding of the store's row in its place
StaleOnlyAges ==
    \A id \in Ids :
        LET k == _get_cache_key(id)
        IN  Stale(store, cache, id)
            => IF cache'[k] = None THEN TRUE
               ELSE IF Decoded(cache'[k].value) = store'[id] THEN TRUE
               ELSE /\ cache'[k].value = cache[k].value
                    /\ cache'[k].ttl <= cache[k].ttl

\* C21: when the invalidation of a committed write to X is skipped
\* (degraded connector, transport error, or the request stops between
\* commit and invalidation), the stale entry is served at most until its TTL
\* expires: a cache hit never rewrites the entry or extends its TTL, no step
\* gives a stale entry more time, and once the entry has expired the next
\* read of X returns the store's current value.
C21_StaleUntilExpiry ==
    /\ []HitLeavesEntry
    /\ []ExpiredReadsStore
    /\ [][StaleOnlyAges]_vars

\* C21 witness: an update has committed a new price while the entry of the
\* product stayed in the cache; half of the TTL later a read has been
\* answered from that entry with the old price, and the entry still has
\* only half of its TTL.
C21_Witness ==
    /\ last.op = "read"
    /\ last.hit
    /\ last.result = Found(SeedRow)
    /\ store[SeedId] # None
    /\ store[SeedId].price = 20
    /\ Stale(store, cache, SeedId)
    /\ cache[_get_cache_key(SeedId)].ttl = CACHE_TTL_SECONDS \div 2
    /\ cache = obs.cache

(***************************************************************************)
(* Properties of SpecConn                                                  *)
(***************************************************************************)
\* every entry on the server has a time to live that is positive
EntriesExpire ==
    \A k \in Keys : cache[k] # None => cache[k].ttl > 0

\* the entry a set call has just written or replaced
EntryWritten ==
    IF last.op = "set" /\ last.id # "-"
       /\ cache[_get_cache_key(last.id)] # obs.cache[_get_cache_key(last.id)]
    THEN cache[_get_cache_key(last.id)]
    ELSE None

DegradedNoOps ==
    redis_client = "None"
    => /\ last.op = "get" => last.result.value = None
       /\ last.op \in {"set", "invalidate"} => cache = obs.cache
       /\ last.op = "health" => last.result.value = FALSE

\* no step assigns redis_client
ClientKept == redis_client' = redis_client

\* C25: when connect() has failed the connector is degraded and stays so
\* for the rest of the process: no get, set, delete or health call changes
\* redis_client or connects again, so every later get returns absent, every
\* set and delete leaves the server's keys alone and health returns false,
\* also once the Redis server answers again.
C25_DegradedStaysDegraded ==
    /\ []DegradedNoOps
    /\ [][ClientKept]_vars

\* C25 witness: the server did not answer when the process started and
\* answers now, holding an entry; the connector has no client and its
\* health call has returned false.
C25_Witness ==
    /\ redis_client = "None"
    /\ redis_up
    /\ cache = StrandedCache
    /\ last.op = "health"
    /\ last.result.value = FALSE

\* a health call answers with what a ping finds at that moment
HealthProbes ==
    last.op = "health"
    => /\ last.result.value = (redis_client # "None" /\ redis_up)
       /\ cache = obs.cache
       /\ last.result.body.status = "healthy"
       /\ last.result.body.redis = IF last.result.value THEN "connected"
                                   ELSE "disconnected"

\* a health call leaves the server's keys and the connector as they were
HealthChangesNothing ==
    last'.op = "health"
    => /\ cache' = cache
       /\ redis_client' = redis_client
       /\ redis_up' = redis_up

\* C26: health() returns true iff the cache answers at the time of the
\* call: it pings on every call instead of returning a stored flag, returns
\* false when the ping fails or the connector is degraded, never raises,
\* and changes neither the cache contents nor the connector; the /health
\* result reports status healthy whether the cache is connected or not.
C26_HealthIsLiveProbe ==
    /\ []HealthProbes
    /\ [][HealthChangesNothing]_vars

\* C26 witness: the connector has a client, the server has stopped
\* answering since, and /health has reported status healthy with redis
\* disconnected.
C26_Witness ==
    /\ redis_client = "client"
    /\ ~redis_up
    /\ last.op = "health"
    /\ last.result.value = FALSE
    /\ last.result.body.status = "healthy"
    /\ last.result.body.redis = "disconnected"

\* ids a key can be asked for, among them the empty one and ones that
\* contain the prefix
KeyIds == Ids \cup {"", "product:", "product:a", "a:b"}

\* two ids with one key are one id
KeyInjective ==
    \A i, j \in KeyIds : _get_cache_key(i) = _get_cache_key(j) => i = j

\* the entry under an id's key decodes to a product with that id
EntriesUnderOwnKey ==
    \A id \in Ids :
        Probe(cache, id) # None
        => /\ "id" \in DOMAIN json_loads(Probe(cache, id))
           /\ Decoded(Probe(cache, id)).id = id

\* C27: key(id) = "product:" + id is injective, and in every reachable
\* state the entry under key(X) encodes a product whose id is X; so a read
\* of X never returns a product with another id, and a set of a product
\* whose id is missing or empty writes nothing.
C27_KeyMatchesId ==
    /\ KeyInjective
    /\ EntriesUnderOwnKey
    /\ (last.op = "read" /\ last.result.kind = "product")
       => last.result.product.id = last.id
    /\ (last.op = "set" /\ NoId(obs.data.product_dict))
       => cache = obs.cache

\* C27 witness: both products are cached, each under its own key, and a
\* read of the second one has been answered from its entry.
C27_Witness ==
    /\ last.op = "read"
    /\ last.id = "b"
    /\ last.hit
    /\ last.result = Found(OtherRow)
    /\ Probe(cache, SeedId) # None
    /\ Decoded(Probe(cache, SeedId)).id = SeedId
    /\ Decoded(Probe(cache, "b")).id = "b"

(***************************************************************************)
(* Properties of SpecCodec                                                 *)
(***************************************************************************)
\* C23: encode followed by decode is the identity on products: for every
\* valid product, decoding its cache encoding (to_dict, JSON dump, JSON
\* load, Product construction) yields a product with the same id, name,
\* description, price and stock_quantity.
C23_RoundTrip ==
    last.op = "decode"
    => /\ last.result.kind = "product"
       /\ DOMAIN last.result.product = Columns
       /\ \A c \in Columns : last.result.product[c] = obs.data[c]

\* C23 witness: a product with a stock of zero and a price equal to
\* another product's stock has come back from the cache as it went in.
C23_Witness ==
    /\ last.op = "decode"
    /\ obs.data.id = "b"
    /\ obs.data.name = "V"
    /\ obs.data.price = 10
    /\ obs.data.stock_quantity = 0
    /\ obs.got # None
    /\ last.result = Found(obs.data)

(***************************************************************************)
(* Properties of SpecFrame                                                 *)
(***************************************************************************)
\* C24: a successful update changes exactly the fields the request
\* supplied and leaves every other field, and the id, as they were before
\* the update; the record it returns is the record the store holds after
\* the commit.
C24_UpdateChangesSuppliedFields ==
    (last.op = "update" /\ last.result.kind = "product")
    => /\ obs.store[last.id] # None
       /\ store[last.id] # None
       /\ \A c \in Columns :
             store[last.id][c] = IF c \in DOMAIN obs.data THEN obs.data[c]
                                 ELSE obs.store[last.id][c]
       /\ store[last.id].id = last.id
       /\ last.result = Found(store[last.id])

\* C24 witness: an update of the price alone, of a product an earlier
\* update had renamed and restocked, has returned the record with the new
\* price and the name and stock of before.
C24_Witness ==
    /\ last.op = "update"
    /\ DOMAIN obs.data = {"name", "price"}
    /\ obs.store[last.id] # None
    /\ obs.store[last.id].name = "V"
    /\ obs.store[last.id].stock_quantity = 4
    /\ last.result.kind = "product"
    /\ last.result.product =
          [obs.store[last.id] EXCEPT !.name = "W", !.price = 20]
    /\ store[last.id] = last.result.product

(***************************************************************************)
(* Properties of SpecTwo                                                   *)
(***************************************************************************)
\* the request whose handler takes the step: the one whose handler moves
\* on, or, when the request is accepted and answered in one step, the one
\* just answered
Acting ==
    IF \E h \in Handlers : req'[h].pc # req[h].pc
    THEN LET h == CHOOSE g \in Handlers : req'[g].pc # req[g].pc
         IN  IF req[h].pc = "idle" THEN req'[h] ELSE req[h]
    ELSE last'

\* the step leaves the row and the entry of every other id as they were
OthersUntouched ==
    \A y \in Ids \ {Acting.id} :
        /\ store'[y] = store[y]
        /\ cache'[_get_cache_key(y)] = cache[_get_cache_key(y)]

\* the step of a read leaves every row as it was
ReadKeepsStore == Acting.op = "read" => store' = store

\* C28: every read, update or delete of id X leaves the store record and
\* the cache entry of every other id unchanged, and a read changes no
\* store record, in every interleaving of concurrent requests.
C28_OtherIdsUntouched == [][OthersUntouched /\ ReadKeepsStore]_vars

\* C28 witness: a delete of the first product that overlapped a request
\* for the second has removed the first product's row and entry, and the
\* second product's row and entry are as they were at the start.
C28_Witness ==
    /\ last.op = "delete"
    /\ last.id = SeedId
    /\ ~last.alone
    /\ last.result = Bool(TRUE)
    /\ store[SeedId] = None
    /\ Probe(cache, SeedId) = None
    /\ store["b"] = OtherRow
    /\ cache[_get_cache_key("b")] = WarmBoth[_get_cache_key("b")]

=============================================================================
